---- MODULE Spec2Model ----
(***************************************************************************)
(* Guest-house booking server: the bookings relation (server/storage.ts),  *)
(* the booking routes (the routes file with the multi-room create handler) *)
(* and the chat callback handler (server/telegram.ts).                     *)
(*                                                                         *)
(* Every handler is an async function.  Each `await` on the datastore is   *)
(* one atomic step of the model.  The synchronous code before the first    *)
(* await touches no shared state: it is the first step of the create       *)
(* handler, and is folded into the first read (getBooking) of the date     *)
(* edit and of the approve callback.  A handler with a single datastore    *)
(* call is a single action.                                                *)
(*                                                                         *)
(* Dates are date-only strings 'YYYY-MM-DD' which the datastore compares   *)
(* as text; on well-formed dates that order is the calendar order, so a    *)
(* date is modelled by its day number 1..MaxDay and the empty string by 0  *)
(* (it is falsy, has length 0, and sorts before every date).               *)
(*                                                                         *)
(* A row holds the columns the handlers read or write after the insert:    *)
(* the room number and room list, the extra-bed list, the stay window, the *)
(* totals, the status, the admin notes, the booking date and the names of  *)
(* the two uploaded files, and the guest's name, id number, phone and      *)
(* notes, which are copied from the request and written by no handler.     *)
(*                                                                         *)
(* The uploads directory is the sequence `uploads`: file k is the k-th     *)
(* file the upload middleware stored, and uploads[k] tells whether it is   *)
(* still there.  `notifications` records, per booking id, the calls of     *)
(* sendBookingNotification and how the call settled.  `galleryPhotos` is   *)
(* the gallery_photos relation, a set of rows with generated ids.          *)
(*                                                                         *)
(* Specifications: Spec serves the requests of the pages one at a time;    *)
(* SpecRace has create requests in flight together, SpecEditRace date      *)
(* edits and create requests; SpecForm sends the whole create form, with   *)
(* files, to a datastore that may fail, and lets the notifications         *)
(* settle; SpecTotals sends nights and totals that the pages would not     *)
(* compute; SpecBoundary sends create requests at the boundaries of the    *)
(* validation; SpecNotes rejects with notes; SpecAdmin serves every route  *)
(* that takes a booking id and both chat callbacks; SpecGallery serves     *)
(* the gallery; SpecStore calls the store's operations directly.           *)
(***************************************************************************)
EXTENDS Integers, Sequences, FiniteSets

\* ------------------------------------------------------------------ bounds
MaxBookings == 2
MaxDay == 3
NumRooms == 2

MaxInflight == 2
MaxFiles == 2
MaxPhotos == 2

\* ------------------------------------------------------- program constants
ROOM_MIN == 1
ROOM_MAX == 10
DAILY_RATE_MVR == 600
USD_EXCHANGE_RATE == 20

Procs == 1..MaxInflight
Ids == 1..MaxBookings
NoId == 0
Days == 1..MaxDay
EmptyDate == 0
\* A parameter or body field that is not given, and a column that is NULL.
Undefined == "undefined"
Null == "NULL"
Rooms == 1..NumRooms
\* No uploaded file (req.files has no entry; the column is NULL).
NoFile == 0
\* The calendar day of the server's clock, as text.
Today == "today"

VARIABLES bookings, nextId, inflight, resp, uploads, notifications,
          galleryPhotos, nextPhotoId

vars == <<bookings, nextId, inflight, resp, uploads, notifications,
          galleryPhotos, nextPhotoId>>

Idle == [kind |-> "idle"]
NoResp == [op |-> "none", code |-> 0, id |-> NoId]

\* ---------------------------------------------------------------- storage

\* getBooking(id) yields the row or undefined; callers only test the result
\* for truthiness and read fields of a found row.
getBooking(bk, id) ==
  {bk[i] : i \in DOMAIN bk \cap {id}}

\* createBooking under an exclusion constraint: no insert over an active
\* overlapping booking of the room.
createBooking_Exclusive(bk, id, insertBooking) ==
  IF \E i \in DOMAIN bk :
       /\ bk[i].roomNumber = insertBooking.roomNumber
       /\ bk[i].status \notin {"Cancelled", "Rejected"}
       /\ bk[i].checkInDate < insertBooking.checkOutDate
       /\ bk[i].checkOutDate > insertBooking.checkInDate
    THEN bk
    ELSE [i \in DOMAIN bk \cup {id} |-> IF i = id THEN insertBooking ELSE bk[i]]

createBooking(bk, id, insertBooking) ==
  [i \in DOMAIN bk \cup {id} |->
     IF i = id
       THEN [insertBooking EXCEPT
               !.status = IF insertBooking.status = "" THEN "Pending"
                          ELSE insertBooking.status,
               !.bookingDate = IF insertBooking.bookingDate = "" THEN Today
                               ELSE insertBooking.bookingDate]
       ELSE bk[i]]

\* updateBookingStatus that sets a booking which already has the status
\* back to Pending.
updateBookingStatus_Toggle(bk, id, status, adminNotes) ==
  [i \in DOMAIN bk |->
     IF i = id
       THEN [bk[i] EXCEPT !.status = IF @ = status THEN "Pending" ELSE status,
                          !.adminNotes = IF adminNotes # Undefined THEN adminNotes ELSE @]
       ELSE bk[i]]

\* updateBookingStatus that writes the admin notes in every call (NULL for
\* a note that is not given).
updateBookingStatus_AlwaysNotes(bk, id, status, adminNotes) ==
  [i \in DOMAIN bk |->
     IF i = id
       THEN [bk[i] EXCEPT !.status = status,
                          !.adminNotes = IF adminNotes # Undefined THEN adminNotes ELSE Null]
       ELSE bk[i]]

updateBookingStatus(bk, id, status, adminNotes) ==
  [i \in DOMAIN bk |->
     IF i = id
       THEN [bk[i] EXCEPT !.status = status,
                          !.adminNotes = IF adminNotes # Undefined THEN adminNotes ELSE @]
       ELSE bk[i]]

\* updateBookingDates that also sets the booking back to Pending.
updateBookingDates_ToPending(bk, id, checkIn, checkOut, totalNights, totalMVR, totalUSD) ==
  [i \in DOMAIN bk |->
     IF i = id
       THEN [bk[i] EXCEPT !.checkInDate = checkIn,
                          !.checkOutDate = checkOut,
                          !.totalNights = totalNights,
                          !.totalMVR = totalMVR,
                          !.totalUSD = totalUSD,
                          !.status = "Pending"]
       ELSE bk[i]]

updateBookingDates(bk, id, checkIn, checkOut, totalNights, totalMVR, totalUSD) ==
  [i \in DOMAIN bk |->
     IF i = id
       THEN [bk[i] EXCEPT !.checkInDate = checkIn,
                          !.checkOutDate = checkOut,
                          !.totalNights = totalNights,
                          !.totalMVR = totalMVR,
                          !.totalUSD = totalUSD]
       ELSE bk[i]]

\* deleteBooking that removes a booking only while it is Pending.
deleteBooking_PendingOnly(bk, id) ==
  [i \in {j \in DOMAIN bk : j # id \/ bk[j].status # "Pending"} |-> bk[i]]

deleteBooking(bk, id) ==
  [i \in DOMAIN bk \ {id} |-> bk[i]]

\* conflictingBookings that leaves no booking out of the scan.
conflictingBookings_NoExclude(bk, roomNumber, checkIn, checkOut, excludeBookingId) ==
  {i \in DOMAIN bk :
     /\ bk[i].roomNumber = roomNumber
     /\ bk[i].checkInDate < checkOut
     /\ bk[i].checkOutDate > checkIn
     /\ bk[i].status \notin {"Cancelled", "Rejected"}}

\* conflictingBookings with the comparisons not strict.
conflictingBookings_Inclusive(bk, roomNumber, checkIn, checkOut, excludeBookingId) ==
  {i \in DOMAIN bk :
     /\ bk[i].roomNumber = roomNumber
     /\ bk[i].checkInDate <= checkOut
     /\ bk[i].checkOutDate >= checkIn
     /\ bk[i].status \notin {"Cancelled", "Rejected"}
     /\ (IF excludeBookingId # NoId THEN i # excludeBookingId ELSE TRUE)}

conflictingBookings(bk, roomNumber, checkIn, checkOut, excludeBookingId) ==
  {i \in DOMAIN bk :
     /\ bk[i].roomNumber = roomNumber
     /\ bk[i].checkInDate < checkOut
     /\ bk[i].checkOutDate > checkIn
     /\ bk[i].status \notin {"Cancelled", "Rejected"}
     /\ (IF excludeBookingId # NoId THEN i # excludeBookingId ELSE TRUE)}

\* checkRoomAvailability that counts the bookings of every status.
checkRoomAvailability_AnyStatus(bk, roomNumber, checkIn, checkOut, excludeBookingId) ==
  Cardinality({i \in DOMAIN bk :
                 /\ bk[i].roomNumber = roomNumber
                 /\ bk[i].checkInDate < checkOut
                 /\ bk[i].checkOutDate > checkIn
                 /\ (IF excludeBookingId # NoId THEN i # excludeBookingId ELSE TRUE)}) = 0

checkRoomAvailability(bk, roomNumber, checkIn, checkOut, excludeBookingId) ==
  Cardinality(conflictingBookings(bk, roomNumber, checkIn, checkOut, excludeBookingId)) = 0

\* ----------------------------------------------------------------- inputs

\* Encodings of the roomNumbers form field that the requests of the model
\* carry: "" is the absent field, the others are JSON texts.
RoomListTexts == {"", "[1,2]"}

\* JSON.parse on the texts above: the parsed array, or a failure.
JSONParse(text) ==
  CASE text = "[1,2]" -> [ok |-> TRUE, isArray |-> TRUE, arr |-> <<1, 2>>]
    [] text = "[]"    -> [ok |-> TRUE, isArray |-> TRUE, arr |-> <<>>]
    [] text = "[1]"   -> [ok |-> TRUE, isArray |-> TRUE, arr |-> <<1>>]
    [] text = "[2]"   -> [ok |-> TRUE, isArray |-> TRUE, arr |-> <<2>>]
    [] text = "[0]"   -> [ok |-> TRUE, isArray |-> TRUE, arr |-> <<0>>]
    [] text = "7"     -> [ok |-> TRUE, isArray |-> FALSE, arr |-> <<>>]
    [] OTHER          -> [ok |-> FALSE, isArray |-> FALSE, arr |-> <<>>]

\* Number.prototype.toFixed(2) of a non-negative whole number, as text.
DigitText(d) ==
  CASE d = 0 -> "0" [] d = 1 -> "1" [] d = 2 -> "2" [] d = 3 -> "3" [] d = 4 -> "4"
    [] d = 5 -> "5" [] d = 6 -> "6" [] d = 7 -> "7" [] d = 8 -> "8" [] OTHER -> "9"

RECURSIVE NatText(_)
NatText(n) ==
  IF n < 10 THEN DigitText(n) ELSE NatText(n \div 10) \o DigitText(n % 10)

\* (x / y).toFixed(2) for x, y >= 0: x / y rounded to hundredths.
ToFixed2(x, y) ==
  LET hundredths == (2 * 100 * x + y) \div (2 * y)
      cents == hundredths % 100
  IN NatText(hundredths \div 100) \o "." \o DigitText(cents \div 10) \o DigitText(cents % 10)

\* The totals the admin page computes for a stay of n nights.
Pricing(n) ==
  [totalNights |-> n,
   totalMVR |-> n * DAILY_RATE_MVR,
   totalUSD |-> ToFixed2(n * DAILY_RATE_MVR, USD_EXCHANGE_RATE)]

\* Stay windows of the requests: every window of at least one night, and
\* two windows whose check-out is not after the check-in (the same day, and
\* an earlier day).  The totals are those of the window's length, or of one
\* night when the window has none: the server takes nights and totals from
\* the request, not from the dates.
StayInputs ==
  {[checkInDate |-> w[1], checkOutDate |-> w[2],
    price |-> Pricing(IF w[2] > w[1] THEN w[2] - w[1] ELSE 1)] :
     w \in {x \in Days \X Days : x[2] > x[1] \/ (x[1] = MaxDay - 1 /\ x[2] <= x[1])}}

\* A request without a check-in date.
NoDateInput ==
  [checkInDate |-> EmptyDate, checkOutDate |-> MaxDay, price |-> Pricing(1)]

\* The guest fields of the requests: a name, an id number, a phone number
\* and a note.
Guest ==
  [fullName |-> "Aminath Ali", idNumber |-> "A123456",
   phoneNumber |-> "7771234", customerNotes |-> "late arrival"]

\* Requests to POST /api/bookings: a single room, or a room list together
\* with its first room as the room number; no extra-bed list and no file.
\* idPhoto and paymentSlip tell whether the form carries that file.
CreateInputs ==
  {[fullName |-> Guest.fullName, idNumber |-> Guest.idNumber,
    phoneNumber |-> Guest.phoneNumber, customerNotes |-> Guest.customerNotes,
    roomNumber |-> rt[1], roomNumbers |-> rt[2], extraBeds |-> "",
    checkInDate |-> s.checkInDate, checkOutDate |-> s.checkOutDate,
    totalNights |-> s.price.totalNights, totalMVR |-> s.price.totalMVR,
    totalUSD |-> s.price.totalUSD, idPhoto |-> FALSE, paymentSlip |-> FALSE] :
     rt \in {x \in Rooms \X RoomListTexts : x[2] = "" \/ x[1] = JSONParse(x[2]).arr[1]},
     s \in StayInputs \cup {NoDateInput}}

\* The adminNotes field of the bodies of PATCH /api/bookings/:id/reject.
NoteInputs == {Undefined}

\* Bodies of PATCH /api/bookings/:id/dates.
DatesInputs ==
  {[checkInDate |-> s.checkInDate, checkOutDate |-> s.checkOutDate,
    totalNights |-> s.price.totalNights, totalMVR |-> s.price.totalMVR,
    totalUSD |-> s.price.totalUSD] : s \in StayInputs \cup {NoDateInput}}

\* ----------------------------------------------------------------- routes

\* POST /api/bookings: the roomNumbers field, parsed; ok = FALSE is the 400.
parsedRoomNumbers(body) ==
  IF body.roomNumbers = ""
    THEN [ok |-> TRUE, isNull |-> TRUE, arr |-> <<>>]
    ELSE LET j == JSONParse(body.roomNumbers)
         IN [ok |-> /\ j.ok
                    /\ j.isArray
                    /\ \A k \in 1..Len(j.arr) : j.arr[k] >= ROOM_MIN /\ j.arr[k] <= ROOM_MAX,
             isNull |-> FALSE,
             arr |-> j.arr]

\* POST /api/bookings: the extraBeds field, parsed and compared with the
\* parsed room list when the request has one; ok = FALSE is the 400.
parsedExtraBeds(body) ==
  IF body.extraBeds = ""
    THEN [ok |-> TRUE, arr |-> <<>>]
    ELSE LET j == JSONParse(body.extraBeds)
             rooms == parsedRoomNumbers(body)
         IN [ok |-> /\ j.ok
                    /\ j.isArray
                    /\ \A k \in 1..Len(j.arr) : j.arr[k] >= ROOM_MIN /\ j.arr[k] <= ROOM_MAX
                    /\ (~rooms.isNull =>
                          \A k \in 1..Len(j.arr) :
                            \E n \in 1..Len(rooms.arr) : rooms.arr[n] = j.arr[k]),
             arr |-> j.arr]

\* validationSchema that asks for a full name of more than two characters.
validationSchema_LongName(body) ==
  /\ Len(body.fullName) > 2
  /\ Len(body.idNumber) >= 3
  /\ body.roomNumber >= ROOM_MIN /\ body.roomNumber <= ROOM_MAX
  /\ body.checkInDate # EmptyDate
  /\ body.checkOutDate # EmptyDate
  /\ body.totalNights >= 1
  /\ body.totalMVR >= 1

\* POST /api/bookings: validationSchema.safeParse(bookingData).success, on
\* the fields the requests of the model vary (the name and the id number
\* are texts; a phone number, a note, a room list, an extra-bed list and a
\* file name are texts or absent).
validationSchema(body) ==
  /\ Len(body.fullName) >= 2
  /\ Len(body.idNumber) >= 3
  /\ body.roomNumber >= ROOM_MIN /\ body.roomNumber <= ROOM_MAX
  /\ body.checkInDate # EmptyDate
  /\ body.checkOutDate # EmptyDate
  /\ body.totalNights >= 1
  /\ body.totalMVR >= 1

\* selectedRooms taken from the single room number alone.
selectedRooms_SingleRoom(body) ==
  <<body.roomNumber>>

\* POST /api/bookings: the rooms whose availability the handler checks (a
\* parsed list, also an empty one, takes the place of the room number).
selectedRooms(body) ==
  LET p == parsedRoomNumbers(body)
  IN IF p.isNull THEN <<body.roomNumber>> ELSE p.arr

\* bookingUpload: the names under which the upload middleware stores the
\* files of a request, fresh ones, before the handler runs.
reqFiles(up, body) ==
  [idPhoto |-> IF body.idPhoto THEN Len(up) + 1 ELSE NoFile,
   paymentSlip |-> IF body.paymentSlip
                     THEN Len(up) + (IF body.idPhoto THEN 2 ELSE 1)
                     ELSE NoFile]

\* The uploads directory after the middleware has stored the files.
bookingUpload(up, body) ==
  LET files == reqFiles(up, body)
  IN up \o [k \in 1..Cardinality({files.idPhoto, files.paymentSlip} \ {NoFile}) |-> TRUE]

\* POST /api/bookings cleanupFiles: unlinks the request's files (an unlink
\* of a file just stored succeeds).
cleanupFiles(up, files) ==
  [k \in DOMAIN up |-> up[k] /\ k \notin {files.idPhoto, files.paymentSlip}]

\* POST /api/bookings: the row handed to createBooking.
bookingData(body, files) ==
  [fullName |-> body.fullName,
   idNumber |-> body.idNumber,
   phoneNumber |-> IF body.phoneNumber = "" THEN Null ELSE body.phoneNumber,
   customerNotes |-> IF body.customerNotes = "" THEN Null ELSE body.customerNotes,
   roomNumber |-> body.roomNumber,
   roomNumbers |-> body.roomNumbers,
   extraBeds |-> body.extraBeds,
   idPhoto |-> files.idPhoto,
   paymentSlip |-> files.paymentSlip,
   bookingDate |-> Today,
   checkInDate |-> body.checkInDate,
   checkOutDate |-> body.checkOutDate,
   totalNights |-> body.totalNights,
   totalMVR |-> body.totalMVR,
   totalUSD |-> body.totalUSD,
   status |-> "Pending",
   adminNotes |-> Null]

Respond(op, code, id) == [op |-> op, code |-> code, id |-> id]

\* The model generates at most MaxBookings ids: a create request proceeds
\* only while an id is left for it and for every create request in flight.
IdReserved(p) ==
  nextId + Cardinality({q \in Procs \ {p} : inflight[q].kind = "create"}) <= MaxBookings

\* sendBookingNotification is called for the booking and not awaited: one
\* more call on record, its outcome pending.
sendBookingNotification(nt, id) ==
  [i \in DOMAIN nt \cup {id} |->
     IF i = id
       THEN [attempts |-> (IF id \in DOMAIN nt THEN nt[id].attempts ELSE 0) + 1,
             outcome |-> "pending"]
       ELSE nt[i]]

\* One turn of the handler's loop over selectedRooms, then the insert: `done`
\* rooms have passed the check.  The check of the next room (cleanupFiles
\* and 409 when it is taken), or, when none is left, createBooking, the call
\* of sendBookingNotification and the 201.
PostBookingTurn(p, body, done) ==
  LET rooms == selectedRooms(body)
  IN IF done < Len(rooms)
       THEN IF checkRoomAvailability(bookings, rooms[done + 1],
                                     body.checkInDate, body.checkOutDate, NoId)
              THEN /\ inflight' = [inflight EXCEPT ![p].done = done + 1]
                   /\ resp' = NoResp
                   /\ UNCHANGED <<bookings, nextId, uploads, notifications, galleryPhotos, nextPhotoId>>
              ELSE /\ inflight' = [inflight EXCEPT ![p] = Idle]
                   /\ uploads' = cleanupFiles(uploads, inflight[p].files)
                   /\ resp' = Respond("POST /api/bookings", 409, NoId)
                   /\ UNCHANGED <<bookings, nextId, notifications, galleryPhotos, nextPhotoId>>
       ELSE /\ bookings' = createBooking(bookings, nextId,
                                         bookingData(body, inflight[p].files))
            /\ nextId' = nextId + 1
            /\ notifications' = sendBookingNotification(notifications, nextId)
            /\ inflight' = [inflight EXCEPT ![p] = Idle]
            /\ resp' = Respond("POST /api/bookings", 201, nextId)
            /\ UNCHANGED <<uploads, galleryPhotos, nextPhotoId>>

\* A free request slot; the lowest one, as the slots are interchangeable.
FreeSlot(p) ==
  /\ inflight[p] = Idle
  /\ \A q \in Procs : q < p => inflight[q] # Idle

\* The model stores at most MaxFiles files.
FilesLeft(body) ==
  Len(bookingUpload(uploads, body)) <= MaxFiles

\* POST /api/bookings arrives: the upload middleware, then the synchronous
\* validation, up to the first await.  The 400 of the room list and of the
\* extra-bed list is sent before cleanupFiles is defined; the 400 of the
\* schema calls it.
PostBooking(p, body) ==
  /\ FreeSlot(p)
  /\ FilesLeft(body)
  /\ UNCHANGED <<bookings, nextId, notifications, galleryPhotos, nextPhotoId>>
  /\ IF ~parsedRoomNumbers(body).ok \/ ~parsedExtraBeds(body).ok
       THEN /\ uploads' = bookingUpload(uploads, body)
            /\ resp' = Respond("POST /api/bookings", 400, NoId)
            /\ UNCHANGED inflight
       ELSE IF ~validationSchema(body)
         THEN /\ uploads' = cleanupFiles(bookingUpload(uploads, body), reqFiles(uploads, body))
              /\ resp' = Respond("POST /api/bookings", 400, NoId)
              /\ UNCHANGED inflight
         ELSE /\ IdReserved(p)
              /\ uploads' = bookingUpload(uploads, body)
              /\ inflight' = [inflight EXCEPT ![p] =
                                [kind |-> "create", body |-> body, done |-> 0,
                                 files |-> reqFiles(uploads, body)]]
              /\ resp' = NoResp

\* POST /api/bookings resumes at an await.
PostBookingResume(p) ==
  /\ inflight[p].kind = "create"
  /\ PostBookingTurn(p, inflight[p].body, inflight[p].done)

\* POST /api/bookings resumes at an await with a rejection of the datastore
\* call: the catch block answers 500, without cleanupFiles.
PostBookingStoreError(p) ==
  /\ inflight[p].kind = "create"
  /\ inflight' = [inflight EXCEPT ![p] = Idle]
  /\ resp' = Respond("POST /api/bookings", 500, NoId)
  /\ UNCHANGED <<bookings, nextId, uploads, notifications, galleryPhotos, nextPhotoId>>

\* sendBookingNotification that is called again when it has failed.
sendBookingNotificationSettles_Retry(id, outcome) ==
  /\ id \in DOMAIN notifications
  /\ notifications[id].outcome = "pending"
  /\ notifications' = IF outcome = "failed"
                         THEN sendBookingNotification(notifications, id)
                         ELSE [notifications EXCEPT ![id].outcome = outcome]
  /\ resp' = NoResp
  /\ UNCHANGED <<bookings, nextId, inflight, uploads, galleryPhotos, nextPhotoId>>

\* The promise of sendBookingNotification settles: true ("sent"), or false
\* ("failed": no bot token or chat id, or an error caught and logged).  The
\* caller holds no reference to the booking's request any more.
sendBookingNotificationSettles(id, outcome) ==
  /\ id \in DOMAIN notifications
  /\ notifications[id].outcome = "pending"
  /\ notifications' = [notifications EXCEPT ![id].outcome = outcome]
  /\ resp' = NoResp
  /\ UNCHANGED <<bookings, nextId, inflight, uploads, galleryPhotos, nextPhotoId>>

\* GET /api/bookings/check-availability
GetCheckAvailability(roomNumber, checkIn, checkOut) ==
  /\ resp' = [op |-> "GET /api/bookings/check-availability", code |-> 200, id |-> NoId,
              roomNumber |-> roomNumber, checkIn |-> checkIn, checkOut |-> checkOut,
              available |-> checkRoomAvailability(bookings, roomNumber, checkIn, checkOut, NoId)]
  /\ UNCHANGED <<bookings, nextId, inflight, uploads, notifications, galleryPhotos, nextPhotoId>>

\* The status routes answering 200 whether or not a row matched.
PatchStatus_AlwaysOk(op, id, status, adminNotes) ==
  /\ bookings' = updateBookingStatus(bookings, id, status, adminNotes)
  /\ resp' = Respond(op, 200, id)
  /\ UNCHANGED <<nextId, inflight, uploads, notifications, galleryPhotos, nextPhotoId>>

\* PATCH /api/bookings/:id/confirm, /reject and /cancel: one UPDATE, which
\* matches the row by id alone, and 404 when it matched none.
PatchStatus(op, id, status, adminNotes) ==
  /\ bookings' = updateBookingStatus(bookings, id, status, adminNotes)
  /\ resp' = Respond(op, IF getBooking(bookings', id) = {} THEN 404 ELSE 200, id)
  /\ UNCHANGED <<nextId, inflight, uploads, notifications, galleryPhotos, nextPhotoId>>

PatchConfirm(id) ==
  PatchStatus("PATCH /api/bookings/:id/confirm", id, "Confirmed", Undefined)

PatchReject(id, adminNotes) ==
  PatchStatus("PATCH /api/bookings/:id/reject", id, "Rejected", adminNotes)

\* The cancel route with the status spelled with one l.
PatchCancel_Canceled(id) ==
  PatchStatus("PATCH /api/bookings/:id/cancel", id, "Canceled", Undefined)

PatchCancel(id) ==
  PatchStatus("PATCH /api/bookings/:id/cancel", id, "Cancelled", Undefined)

\* DELETE /api/bookings/:id
DeleteBooking(id) ==
  /\ bookings' = deleteBooking(bookings, id)
  /\ resp' = Respond("DELETE /api/bookings/:id", IF id \in DOMAIN bookings THEN 200 ELSE 404, id)
  /\ UNCHANGED <<nextId, inflight, uploads, notifications, galleryPhotos, nextPhotoId>>

\* GET /api/bookings/:id: getBooking, and 404 for undefined.
GetBooking(id) ==
  /\ resp' = [op |-> "GET /api/bookings/:id",
              code |-> IF getBooking(bookings, id) = {} THEN 404 ELSE 200,
              id |-> id, booking |-> getBooking(bookings, id)]
  /\ UNCHANGED <<bookings, nextId, inflight, uploads, notifications, galleryPhotos, nextPhotoId>>

\* PATCH /api/bookings/:id/dates arrives: the body's fields must be truthy,
\* then getBooking.
PatchDates(p, id, body) ==
  /\ FreeSlot(p)
  /\ UNCHANGED <<bookings, nextId, uploads, notifications, galleryPhotos, nextPhotoId>>
  /\ IF \/ body.checkInDate = EmptyDate \/ body.checkOutDate = EmptyDate
        \/ body.totalNights = 0 \/ body.totalMVR = 0 \/ body.totalUSD = ""
       THEN /\ resp' = Respond("PATCH /api/bookings/:id/dates", 400, id)
            /\ UNCHANGED inflight
       ELSE IF getBooking(bookings, id) = {}
         THEN /\ resp' = Respond("PATCH /api/bookings/:id/dates", 404, id)
              /\ UNCHANGED inflight
         ELSE /\ resp' = NoResp
              /\ inflight' = [inflight EXCEPT ![p] =
                                [kind |-> "dates", id |-> id, body |-> body, pc |-> "check",
                                 roomNumber |-> bookings[id].roomNumber]]

\* PATCH /api/bookings/:id/dates that commits without the availability check.
PatchDatesResume_NoCheck(p) ==
  /\ inflight[p].kind = "dates"
  /\ UNCHANGED <<uploads, notifications, galleryPhotos, nextPhotoId>>
  /\ LET r == inflight[p]
     IN IF r.pc = "check"
          THEN /\ UNCHANGED <<bookings, nextId>>
               /\ inflight' = [inflight EXCEPT ![p].pc = "update"]
               /\ resp' = NoResp
          ELSE /\ bookings' = updateBookingDates(bookings, r.id, r.body.checkInDate,
                                                 r.body.checkOutDate, r.body.totalNights,
                                                 r.body.totalMVR, r.body.totalUSD)
               /\ inflight' = [inflight EXCEPT ![p] = Idle]
               /\ resp' = Respond("PATCH /api/bookings/:id/dates",
                                  IF getBooking(bookings', r.id) = {} THEN 404 ELSE 200, r.id)
               /\ UNCHANGED nextId

\* PATCH /api/bookings/:id/dates resumes: checkRoomAvailability for the room
\* read earlier, excluding the booking itself; then updateBookingDates.
PatchDatesResume(p) ==
  /\ inflight[p].kind = "dates"
  /\ UNCHANGED <<uploads, notifications, galleryPhotos, nextPhotoId>>
  /\ LET r == inflight[p]
     IN IF r.pc = "check"
          THEN /\ UNCHANGED <<bookings, nextId>>
               /\ IF checkRoomAvailability(bookings, r.roomNumber, r.body.checkInDate,
                                           r.body.checkOutDate, r.id)
                    THEN /\ inflight' = [inflight EXCEPT ![p].pc = "update"]
                         /\ resp' = NoResp
                    ELSE /\ inflight' = [inflight EXCEPT ![p] = Idle]
                         /\ resp' = Respond("PATCH /api/bookings/:id/dates", 409, r.id)
          ELSE /\ bookings' = updateBookingDates(bookings, r.id, r.body.checkInDate,
                                                 r.body.checkOutDate, r.body.totalNights,
                                                 r.body.totalMVR, r.body.totalUSD)
               /\ inflight' = [inflight EXCEPT ![p] = Idle]
               /\ resp' = Respond("PATCH /api/bookings/:id/dates",
                                  IF getBooking(bookings', r.id) = {} THEN 404 ELSE 200, r.id)
               /\ UNCHANGED nextId

\* ---------------------------------------------------------------- gallery

DEFAULT_GALLERY_IMAGES ==
  <<[imageUrl |-> "https://images.unsplash.com/photo-1582719508461-905c673771fd?w=800&q=80",
     altText |-> "Beachfront view"],
    [imageUrl |-> "https://images.unsplash.com/photo-1520250497591-112f2f40a3f4?w=800&q=80",
     altText |-> "Luxury room interior"],
    [imageUrl |-> "https://images.unsplash.com/photo-1571896349842-33c89424de2d?w=800&q=80",
     altText |-> "Ocean view room"],
    [imageUrl |-> "https://images.unsplash.com/photo-1566073771259-6a8506099945?w=800&q=80",
     altText |-> "Resort pool area"],
    [imageUrl |-> "https://images.unsplash.com/photo-1551882547-ff40c63fe5fa?w=800&q=80",
     altText |-> "Tropical paradise"]>>

\* The id the datastore generates for the n-th inserted photo: a text that
\* no other row has.
PhotoId(n) == "photo-" \o NatText(n)

\* getAllGalleryPhotos: the rows in ascending display order, rows of equal
\* display order in any order (the query has no other sort key).
getAllGalleryPhotos(gp) ==
  {photos \in [1..Cardinality(gp) -> gp] :
     /\ \A a \in 1..Cardinality(gp), b \in 1..Cardinality(gp) :
          a # b => photos[a] # photos[b]
     /\ \A a \in 1..Cardinality(gp), b \in 1..Cardinality(gp) :
          a < b => photos[a].displayOrder <= photos[b].displayOrder}

addGalleryPhoto(gp, id, photo) ==
  gp \cup {[id |-> id, imageUrl |-> photo.imageUrl, altText |-> photo.altText,
            displayOrder |-> photo.displayOrder]}

deleteGalleryPhoto(gp, id) ==
  {photo \in gp : photo.id # id}

\* The default list numbered from one.
defaultGallery_FromOne(images) ==
  [index \in 1..Len(images) |->
     [id |-> "default-" \o NatText(index),
      imageUrl |-> images[index].imageUrl,
      altText |-> images[index].altText,
      displayOrder |-> index]]

\* GET /api/gallery: the default images mapped with their array index,
\* which starts at zero.
defaultGallery(images) ==
  [index \in 1..Len(images) |->
     [id |-> "default-" \o NatText(index - 1),
      imageUrl |-> images[index].imageUrl,
      altText |-> images[index].altText,
      displayOrder |-> index - 1]]

\* GET /api/gallery
GetGallery(photos) ==
  /\ photos \in getAllGalleryPhotos(galleryPhotos)
  /\ resp' = [op |-> "GET /api/gallery", code |-> 200, id |-> NoId,
              photos |-> IF Len(photos) = 0 THEN defaultGallery(DEFAULT_GALLERY_IMAGES)
                         ELSE photos]
  /\ UNCHANGED <<bookings, nextId, inflight, uploads, notifications,
                 galleryPhotos, nextPhotoId>>

\* The displayOrder field of the bodies of POST /api/gallery, after
\* String(displayOrder || "0").trim(): whether it is all digits, and its
\* parseInt.
displayOrderValue(text) ==
  CASE text = ""  -> [ok |-> TRUE, value |-> 0]
    [] text = "0" -> [ok |-> TRUE, value |-> 0]
    [] text = "1" -> [ok |-> TRUE, value |-> 1]
    [] text = " 1 " -> [ok |-> TRUE, value |-> 1]
    [] OTHER      -> [ok |-> FALSE, value |-> 0]

\* Bodies of POST /api/gallery: objectPath ("" when absent), altText and
\* displayOrder.
GalleryInputs ==
  {[objectPath |-> o, altText |-> a, displayOrder |-> d] :
     o \in {"", "/objects/uploads/a"}, a \in {"", "Pool"}, d \in {"", "1", "-1"}}

\* POST /api/gallery.  The object storage service, which is outside these
\* sources, answers with the path of the object made public; the schema
\* accepts a text, a text and an integer.
PostGallery(body) ==
  /\ UNCHANGED <<bookings, nextId, inflight, uploads, notifications>>
  /\ IF body.objectPath = "" \/ ~displayOrderValue(body.displayOrder).ok
       THEN /\ resp' = Respond("POST /api/gallery", 400, NoId)
            /\ UNCHANGED <<galleryPhotos, nextPhotoId>>
       ELSE /\ nextPhotoId <= MaxPhotos
            /\ galleryPhotos' =
                 addGalleryPhoto(galleryPhotos, PhotoId(nextPhotoId),
                                 [imageUrl |-> body.objectPath,
                                  altText |-> IF body.altText = "" THEN "Gallery image"
                                              ELSE body.altText,
                                  displayOrder |-> displayOrderValue(body.displayOrder).value])
            /\ nextPhotoId' = nextPhotoId + 1
            /\ resp' = [op |-> "POST /api/gallery", code |-> 201, id |-> PhotoId(nextPhotoId)]

\* DELETE /api/gallery/:id, by its call of deleteGalleryPhoto: the row is
\* removed, and 404 is the answer when there was none.
DeleteGallery(id) ==
  /\ galleryPhotos' = deleteGalleryPhoto(galleryPhotos, id)
  /\ resp' = [op |-> "DELETE /api/gallery/:id",
              code |-> IF galleryPhotos' = galleryPhotos THEN 404 ELSE 200, id |-> id]
  /\ UNCHANGED <<bookings, nextId, inflight, uploads, notifications, nextPhotoId>>

\* ---------------------------------------------------------- chat callbacks

\* handleTelegramWebhook, callback data approve_<id>: getBooking.  The handler
\* sends no HTTP response; the code recorded is 404 for the chat answer
\* "Booking not found" and 200 for the other answers.
WebhookApprove(p, id) ==
  /\ FreeSlot(p)
  /\ UNCHANGED <<bookings, nextId, uploads, notifications, galleryPhotos, nextPhotoId>>
  /\ IF getBooking(bookings, id) = {}
       THEN /\ resp' = Respond("callback approve", 404, id)
            /\ UNCHANGED inflight
       ELSE /\ resp' = NoResp
            /\ inflight' = [inflight EXCEPT ![p] = [kind |-> "approve", id |-> id]]

\* approve_<id> resumes: updateBookingStatus(bookingId, "Confirmed").
WebhookApproveResume(p) ==
  /\ inflight[p].kind = "approve"
  /\ bookings' = updateBookingStatus(bookings, inflight[p].id, "Confirmed", Undefined)
  /\ inflight' = [inflight EXCEPT ![p] = Idle]
  /\ resp' = Respond("callback approve", 200, inflight[p].id)
  /\ UNCHANGED <<nextId, uploads, notifications, galleryPhotos, nextPhotoId>>

\* handleTelegramWebhook, callback data reject_<id>: getBooking, and the
\* answers to the chat; no call of the store that writes.
WebhookReject(id) ==
  /\ resp' = Respond("callback reject", IF getBooking(bookings, id) = {} THEN 404 ELSE 200, id)
  /\ UNCHANGED <<bookings, nextId, inflight, uploads, notifications, galleryPhotos, nextPhotoId>>

\* ------------------------------------------------------------ specification

Init ==
  /\ bookings = <<>>
  /\ nextId = 1
  /\ inflight = [p \in Procs |-> Idle]
  /\ resp = NoResp
  /\ uploads = <<>>
  /\ notifications = <<>>
  /\ galleryPhotos = {}
  /\ nextPhotoId = 1

\* No request is in flight.
AllIdle == \A p \in Procs : inflight[p] = Idle

\* Requests served one at a time: a request arrives only when no other is
\* in flight, and runs to its response.
Next ==
  \/ \E p \in Procs, body \in CreateInputs : AllIdle /\ PostBooking(p, body)
  \/ \E p \in Procs : PostBookingResume(p)
  \/ \E r \in Rooms, ci \in Days, co \in Days : AllIdle /\ GetCheckAvailability(r, ci, co)
  \/ \E id \in Ids : AllIdle /\ PatchConfirm(id)
  \/ \E id \in Ids, note \in NoteInputs : AllIdle /\ PatchReject(id, note)
  \/ \E id \in Ids : AllIdle /\ PatchCancel(id)
  \/ \E id \in Ids : AllIdle /\ DeleteBooking(id)
  \/ \E p \in Procs, id \in Ids, body \in DatesInputs : AllIdle /\ PatchDates(p, id, body)
  \/ \E p \in Procs : PatchDatesResume(p)
  \/ \E p \in Procs, id \in Ids : AllIdle /\ WebhookApprove(p, id)
  \/ \E p \in Procs : WebhookApproveResume(p)
  \/ \E id \in Ids : AllIdle /\ WebhookReject(id)

Spec == Init /\ [][Next]_vars

\* Create requests in flight together, among the single-statement
\* operations of the administrator.
NextRace ==
  \/ \E p \in Procs, body \in CreateInputs : PostBooking(p, body)
  \/ \E p \in Procs : PostBookingResume(p)
  \/ \E id \in Ids : PatchConfirm(id)
  \/ \E id \in Ids, note \in NoteInputs : PatchReject(id, note)
  \/ \E id \in Ids : PatchCancel(id)
  \/ \E id \in Ids : DeleteBooking(id)

SpecRace == Init /\ [][NextRace]_vars

\* Requests to POST /api/bookings with the whole form: a room list and an
\* extra-bed list that are absent, well formed, out of range ("[0]") or not
\* JSON ("{"), one stay window or no check-in date, and no file, a payment
\* slip, or a payment slip and an id photo.
FormInputs ==
  {[fullName |-> Guest.fullName, idNumber |-> Guest.idNumber,
    phoneNumber |-> Guest.phoneNumber, customerNotes |-> Guest.customerNotes,
    roomNumber |-> rt[1], roomNumbers |-> rt[2], extraBeds |-> eb,
    checkInDate |-> s.checkInDate, checkOutDate |-> s.checkOutDate,
    totalNights |-> s.price.totalNights, totalMVR |-> s.price.totalMVR,
    totalUSD |-> s.price.totalUSD, idPhoto |-> f[1], paymentSlip |-> f[2]] :
     rt \in {<<1, "">>, <<2, "">>, <<1, "[1,2]">>, <<1, "[0]">>, <<1, "{">>},
     eb \in {"", "[1]", "[2]", "{"},
     s \in {[checkInDate |-> 1, checkOutDate |-> 2, price |-> Pricing(1)], NoDateInput},
     f \in {<<FALSE, FALSE>>, <<FALSE, TRUE>>, <<TRUE, TRUE>>}}

NotificationOutcomes == {"sent", "failed"}

\* Create requests with the whole form, served one at a time, a datastore
\* that may fail them, and the notifications settling in the background.
NextForm ==
  \/ \E p \in Procs, body \in FormInputs : AllIdle /\ PostBooking(p, body)
  \/ \E p \in Procs : PostBookingResume(p)
  \/ \E p \in Procs : PostBookingStoreError(p)
  \/ \E id \in Ids, outcome \in NotificationOutcomes :
        sendBookingNotificationSettles(id, outcome)

SpecForm == Init /\ [][NextForm]_vars

\* Nights and totals as a client other than the pages may send them: those
\* of one and of two nights, a negative number of nights, a local total
\* that is not the nights' price, and a foreign total that is not the local
\* total's exchange.
TotalsInputs ==
  {Pricing(1), Pricing(2),
   [totalNights |-> -1, totalMVR |-> Pricing(1).totalMVR, totalUSD |-> Pricing(1).totalUSD],
   [totalNights |-> 1, totalMVR |-> 1, totalUSD |-> ToFixed2(1, USD_EXCHANGE_RATE)],
   [totalNights |-> 1, totalMVR |-> Pricing(1).totalMVR, totalUSD |-> "1"]}

\* Requests to POST /api/bookings for one room and a window of at least one
\* night, with any of the totals above.
CreateTotalsInputs ==
  {[fullName |-> Guest.fullName, idNumber |-> Guest.idNumber,
    phoneNumber |-> Guest.phoneNumber, customerNotes |-> Guest.customerNotes,
    roomNumber |-> r, roomNumbers |-> "", extraBeds |-> "",
    checkInDate |-> w[1], checkOutDate |-> w[2],
    totalNights |-> t.totalNights, totalMVR |-> t.totalMVR, totalUSD |-> t.totalUSD,
    idPhoto |-> FALSE, paymentSlip |-> FALSE] :
     r \in Rooms, w \in {x \in Days \X Days : x[2] > x[1]}, t \in TotalsInputs}

\* Bodies of PATCH /api/bookings/:id/dates: a window of one or two nights
\* from the first day, or one that ends before it starts, with any of the
\* totals above.
DatesTotalsInputs ==
  {[checkInDate |-> w[1], checkOutDate |-> w[2],
    totalNights |-> t.totalNights, totalMVR |-> t.totalMVR, totalUSD |-> t.totalUSD] :
     w \in {<<1, 2>>, <<1, MaxDay>>, <<MaxDay, 1>>}, t \in TotalsInputs}

\* Create requests and date edits, served one at a time, whose nights and
\* totals are not those the pages compute.
NextTotals ==
  \/ \E p \in Procs, body \in CreateTotalsInputs : AllIdle /\ PostBooking(p, body)
  \/ \E p \in Procs : PostBookingResume(p)
  \/ \E p \in Procs, id \in Ids, body \in DatesTotalsInputs :
        AllIdle /\ PatchDates(p, id, body)
  \/ \E p \in Procs : PatchDatesResume(p)

SpecTotals == Init /\ [][NextTotals]_vars

\* The adminNotes field of the bodies of PATCH /api/bookings/:id/reject:
\* absent, JSON null, the empty text, or a text.
RejectNoteInputs == {Undefined, Null, "", "no payment", "room closed"}

\* Requests to POST /api/bookings for one room and the first night.
CreateOneNightInputs ==
  {[fullName |-> Guest.fullName, idNumber |-> Guest.idNumber,
    phoneNumber |-> Guest.phoneNumber, customerNotes |-> Guest.customerNotes,
    roomNumber |-> r, roomNumbers |-> "", extraBeds |-> "",
    checkInDate |-> 1, checkOutDate |-> 2,
    totalNights |-> Pricing(1).totalNights, totalMVR |-> Pricing(1).totalMVR,
    totalUSD |-> Pricing(1).totalUSD, idPhoto |-> FALSE, paymentSlip |-> FALSE] :
     r \in Rooms}

\* Create requests and the administrator's status changes, served one at a
\* time, with rejections that carry a note.
NextNotes ==
  \/ \E p \in Procs, body \in CreateOneNightInputs : AllIdle /\ PostBooking(p, body)
  \/ \E p \in Procs : PostBookingResume(p)
  \/ \E id \in Ids : AllIdle /\ PatchConfirm(id)
  \/ \E id \in Ids, note \in RejectNoteInputs : AllIdle /\ PatchReject(id, note)
  \/ \E id \in Ids : AllIdle /\ PatchCancel(id)

SpecNotes == Init /\ [][NextNotes]_vars

\* Bodies of PATCH /api/bookings/:id/dates for the windows of at least one
\* night, with the totals of their length.
DatesNightInputs ==
  {[checkInDate |-> w[1], checkOutDate |-> w[2],
    totalNights |-> Pricing(w[2] - w[1]).totalNights,
    totalMVR |-> Pricing(w[2] - w[1]).totalMVR,
    totalUSD |-> Pricing(w[2] - w[1]).totalUSD] :
     w \in {x \in Days \X Days : x[2] > x[1]}}

\* Every booking route that takes an id and both chat callbacks, served
\* one at a time and addressed to ids in the store or not, after create
\* requests for one room and the first night.
NextAdmin ==
  \/ \E p \in Procs, body \in CreateOneNightInputs : AllIdle /\ PostBooking(p, body)
  \/ \E p \in Procs : PostBookingResume(p)
  \/ \E id \in Ids : AllIdle /\ GetBooking(id)
  \/ \E id \in Ids : AllIdle /\ PatchConfirm(id)
  \/ \E id \in Ids, note \in {Undefined, "no payment"} : AllIdle /\ PatchReject(id, note)
  \/ \E id \in Ids : AllIdle /\ PatchCancel(id)
  \/ \E id \in Ids : AllIdle /\ DeleteBooking(id)
  \/ \E p \in Procs, id \in Ids, body \in DatesNightInputs :
        AllIdle /\ PatchDates(p, id, body)
  \/ \E p \in Procs : PatchDatesResume(p)
  \/ \E p \in Procs, id \in Ids : AllIdle /\ WebhookApprove(p, id)
  \/ \E p \in Procs : WebhookApproveResume(p)
  \/ \E id \in Ids : AllIdle /\ WebhookReject(id)

SpecAdmin == Init /\ [][NextAdmin]_vars

\* Date edits in flight together with create requests and with each other:
\* a handler gives way at each of its awaits, and the server takes up any
\* request that has arrived.
NextEditRace ==
  \/ \E p \in Procs, body \in CreateOneNightInputs : PostBooking(p, body)
  \/ \E p \in Procs : PostBookingResume(p)
  \/ \E p \in Procs, id \in Ids, body \in DatesNightInputs : PatchDates(p, id, body)
  \/ \E p \in Procs : PatchDatesResume(p)

SpecEditRace == Init /\ [][NextEditRace]_vars

\* Requests to POST /api/bookings at the boundaries of the validation: a
\* name of one and of two characters, an id number of two and of three, the
\* room numbers 0, 1, ROOM_MAX and ROOM_MAX + 1, a check-in and a check-out
\* date that is empty or not, zero nights or one, and a local total of 0,
\* of 1 and of one night's price; at most one field of a request is
\* outside its bounds.
BoundaryInputs ==
  LET low(t) == {k \in 1..7 :
                   \/ k = 1 /\ Len(t[1]) < 2
                   \/ k = 2 /\ Len(t[2]) < 3
                   \/ k = 3 /\ t[3] \notin ROOM_MIN..ROOM_MAX
                   \/ k = 4 /\ t[4] = EmptyDate
                   \/ k = 5 /\ t[5] = EmptyDate
                   \/ k = 6 /\ t[6] = 0
                   \/ k = 7 /\ t[7] = 0}
  IN {[fullName |-> t[1], idNumber |-> t[2],
       phoneNumber |-> "", customerNotes |-> "",
       roomNumber |-> t[3], roomNumbers |-> "", extraBeds |-> "",
       checkInDate |-> t[4], checkOutDate |-> t[5],
       totalNights |-> t[6], totalMVR |-> t[7],
       totalUSD |-> ToFixed2(t[7], USD_EXCHANGE_RATE),
       idPhoto |-> FALSE, paymentSlip |-> FALSE] :
        t \in {x \in {"A", "Al"} \X {"A1", "A12"}
                     \X {ROOM_MIN - 1, ROOM_MIN, ROOM_MAX, ROOM_MAX + 1}
                     \X {EmptyDate, 1} \X {EmptyDate, 2, MaxDay}
                     \X {0, 1} \X {0, 1, DAILY_RATE_MVR} :
                  Cardinality(low(x)) <= 1}}

\* Create requests at the boundaries of the validation, served one at a
\* time, and bookings deleted.
NextBoundary ==
  \/ \E p \in Procs, body \in BoundaryInputs : AllIdle /\ PostBooking(p, body)
  \/ \E p \in Procs : PostBookingResume(p)
  \/ \E id \in Ids : AllIdle /\ DeleteBooking(id)

SpecBoundary == Init /\ [][NextBoundary]_vars

\* The gallery routes, served one at a time.
NextGallery ==
  \/ \E photos \in getAllGalleryPhotos(galleryPhotos) : GetGallery(photos)
  \/ \E body \in GalleryInputs : PostGallery(body)
  \/ \E n \in 1..MaxPhotos : DeleteGallery(PhotoId(n))

SpecGallery == Init /\ [][NextGallery]_vars

\* The operations of the store called one at a time by a caller other than
\* the routes, with any row and any argument of their types: the contract
\* of DatabaseStorage by itself.

\* Values of InsertBooking: the status and the booking date are optional
\* text ("" when absent).
InsertInputs ==
  {[fullName |-> Guest.fullName, idNumber |-> Guest.idNumber,
    phoneNumber |-> Guest.phoneNumber, customerNotes |-> Guest.customerNotes,
    roomNumber |-> r, roomNumbers |-> "", extraBeds |-> "",
    idPhoto |-> NoFile, paymentSlip |-> NoFile,
    bookingDate |-> d, checkInDate |-> 1, checkOutDate |-> 2,
    totalNights |-> Pricing(1).totalNights, totalMVR |-> Pricing(1).totalMVR,
    totalUSD |-> Pricing(1).totalUSD, status |-> st, adminNotes |-> Null] :
     r \in Rooms, d \in {"", "2025-12-01"}, st \in {"", "Pending", "Confirmed"}}

\* storage.createBooking(insertBooking)
StoreCreateBooking(insertBooking) ==
  /\ nextId <= MaxBookings
  /\ bookings' = createBooking(bookings, nextId, insertBooking)
  /\ nextId' = nextId + 1
  /\ resp' = Respond("storage.createBooking", 0, nextId)
  /\ UNCHANGED <<inflight, uploads, notifications, galleryPhotos, nextPhotoId>>

\* storage.updateBookingStatus(id, status, adminNotes)
StoreUpdateBookingStatus(id, status, adminNotes) ==
  /\ bookings' = updateBookingStatus(bookings, id, status, adminNotes)
  /\ resp' = Respond("storage.updateBookingStatus", 0, id)
  /\ UNCHANGED <<nextId, inflight, uploads, notifications, galleryPhotos, nextPhotoId>>

\* storage.deleteBooking(id)
StoreDeleteBooking(id) ==
  /\ bookings' = deleteBooking(bookings, id)
  /\ resp' = Respond("storage.deleteBooking", 0, id)
  /\ UNCHANGED <<nextId, inflight, uploads, notifications, galleryPhotos, nextPhotoId>>

NextStore ==
  \/ \E insertBooking \in InsertInputs : StoreCreateBooking(insertBooking)
  \/ \E id \in Ids, status \in {"Confirmed", "Rejected", "Cancelled"},
        adminNotes \in {Undefined, "no payment"} :
          StoreUpdateBookingStatus(id, status, adminNotes)
  \/ \E id \in Ids : StoreDeleteBooking(id)

SpecStore == Init /\ [][NextStore]_vars

\* ------------------------------------------------------------- properties

\* The words of the claims, stated on rows and stores without the
\* operators of the server.
IsActive(row) == row.status # "Cancelled" /\ row.status # "Rejected"

Overlap(a, b) == a.checkInDate < b.checkOutDate /\ a.checkOutDate > b.checkInDate

\* Some active booking of the room overlaps the range.
ActiveOverlap(bk, room, checkIn, checkOut) ==
  \E i \in DOMAIN bk :
    /\ bk[i].roomNumber = room
    /\ IsActive(bk[i])
    /\ bk[i].checkInDate < checkOut
    /\ bk[i].checkOutDate > checkIn

Kept == DOMAIN bookings \cap DOMAIN bookings'

\* C1: in every reachable state no two active bookings of the same room
\* have overlapping stay windows.
C1_NoActiveOverlap ==
  \A a \in DOMAIN bookings : \A b \in DOMAIN bookings \ {a} :
    (/\ bookings[a].roomNumber = bookings[b].roomNumber
     /\ IsActive(bookings[a])
     /\ IsActive(bookings[b]))
      => ~Overlap(bookings[a], bookings[b])

\* C2: checkRoomAvailability without excludeId is false exactly when some
\* active booking of the room has checkIn < the range's checkOut and checkOut
\* > the range's checkIn, for every room, range and store, and so is the
\* answer of the check-availability route; no booking conflicts with a range
\* that starts on its check-out date or ends on its check-in date.
C2_AvailabilityIff ==
  /\ \A r \in Rooms, ci \in Days, co \in Days :
       checkRoomAvailability(bookings, r, ci, co, NoId) = ~ActiveOverlap(bookings, r, ci, co)
  /\ resp.op = "GET /api/bookings/check-availability" =>
       resp.available = ~ActiveOverlap(bookings, resp.roomNumber, resp.checkIn, resp.checkOut)
  /\ \A i \in DOMAIN bookings : \A d \in Days :
       /\ i \notin conflictingBookings(bookings, bookings[i].roomNumber,
                                       bookings[i].checkOutDate, d, NoId)
       /\ i \notin conflictingBookings(bookings, bookings[i].roomNumber,
                                       d, bookings[i].checkInDate, NoId)

\* C2 witness: the route has answered "available" for a range that starts
\* on the check-out date of an active booking of the room.
C2_Witness ==
  /\ resp.op = "GET /api/bookings/check-availability"
  /\ resp.available
  /\ resp.checkOut > resp.checkIn
  /\ \E i \in DOMAIN bookings :
       /\ bookings[i].roomNumber = resp.roomNumber
       /\ IsActive(bookings[i])
       /\ bookings[i].checkOutDate > bookings[i].checkInDate
       /\ bookings[i].checkOutDate = resp.checkIn

\* A create request that has passed the check of every selected room and
\* waits for createBooking.
AwaitsInsert(p) ==
  /\ inflight[p].kind = "create"
  /\ inflight[p].done = Len(selectedRooms(inflight[p].body))

\* C3: check-then-insert is not atomic.  A create request that has passed
\* its checks inserts its row as Pending and answers 201 whatever the store
\* holds by then, so two overlapping requests that both passed the check
\* are both persisted.
C3_InsertAfterCheckUnconditional ==
  [][\A p \in Procs :
       (AwaitsInsert(p) /\ inflight'[p] # inflight[p]) =>
         /\ resp' = Respond("POST /api/bookings", 201, nextId)
         /\ nextId \in DOMAIN bookings'
         /\ bookings'[nextId].status = "Pending"
         /\ bookings'[nextId].roomNumber = inflight[p].body.roomNumber
         /\ bookings'[nextId].checkInDate = inflight[p].body.checkInDate
         /\ bookings'[nextId].checkOutDate = inflight[p].body.checkOutDate
         /\ \A i \in DOMAIN bookings : i \in DOMAIN bookings' /\ bookings'[i] = bookings[i]]_vars

\* C3 witness: two overlapping Pending bookings of one room are persisted,
\* the second just answered with 201.
C3_BothPersisted ==
  /\ resp.op = "POST /api/bookings" /\ resp.code = 201
  /\ \E a \in DOMAIN bookings : \E b \in DOMAIN bookings \ {a} :
       /\ bookings[a].roomNumber = bookings[b].roomNumber
       /\ bookings[a].status = "Pending" /\ bookings[b].status = "Pending"
       /\ Overlap(bookings[a], bookings[b])

AllowedTransition(from, to) ==
  \/ from = "Pending" /\ to \in {"Confirmed", "Rejected"}
  \/ from = "Confirmed" /\ to = "Cancelled"

\* C4: every status change is Pending -> Confirmed, Pending -> Rejected or
\* Confirmed -> Cancelled.
C4_OnlyAllowedTransitions ==
  [][\A i \in Kept :
       bookings'[i].status # bookings[i].status =>
         AllowedTransition(bookings[i].status, bookings'[i].status)]_vars

\* C5: once Rejected or Cancelled, a booking's status never changes.
C5_TerminalStatuses ==
  [][\A i \in Kept :
       bookings[i].status \in {"Rejected", "Cancelled"} =>
         bookings'[i].status = bookings[i].status]_vars

\* C6: a chat approve callback changes a status only from Pending (to
\* Confirmed); it leaves a Confirmed, Rejected or Cancelled booking as it is.
C6_ApproveOnlyFromPending ==
  [][\A p \in Procs :
       (inflight[p].kind = "approve" /\ inflight'[p] = Idle) =>
         \A i \in Kept :
           bookings[i].status # "Pending" => bookings'[i].status = bookings[i].status]_vars

\* C7: a chat reject callback for an existing Pending booking leaves that
\* booking Rejected.
C7_RejectCallbackRejects ==
  [][(/\ resp'.op = "callback reject"
      /\ resp'.id \in DOMAIN bookings
      /\ bookings[resp'.id].status = "Pending")
       => (resp'.id \in DOMAIN bookings' /\ bookings'[resp'.id].status = "Rejected")]_vars

StayOf(row) ==
  <<row.checkInDate, row.checkOutDate, row.totalNights, row.totalMVR, row.totalUSD>>

\* C8: a date edit never changes the stay window, nights or totals of a
\* booking that is Cancelled or Rejected.
C8_NoEditOfInactive ==
  [][\A i \in Kept :
       ~IsActive(bookings[i]) => StayOf(bookings'[i]) = StayOf(bookings[i])]_vars

\* C9: no create request inserts a row whose check-out date is not strictly
\* after its check-in date.
C9_NoInsertOfEmptyStay ==
  [][\A i \in DOMAIN bookings' \ DOMAIN bookings :
       bookings'[i].checkOutDate > bookings'[i].checkInDate]_vars

\* The rooms a create request asks for: those of its room list, or its
\* single room number when it sends no list.
RequestedRooms(body) ==
  IF body.roomNumbers = ""
    THEN {body.roomNumber}
    ELSE LET arr == JSONParse(body.roomNumbers).arr IN {arr[k] : k \in 1..Len(arr)}

BlockedRooms(body) ==
  {r \in RequestedRooms(body) :
     ActiveOverlap(bookings, r, body.checkInDate, body.checkOutDate)}

\* C10: with requests served one at a time, a create request is answered
\* 201 and inserts a row only if no requested room has an overlapping active
\* booking; if one has, the request ends with 409 and the store is unchanged.
C10_AllRoomsAvailableOrConflict ==
  [][\A p \in Procs :
       (inflight[p].kind = "create" /\ inflight'[p] # inflight[p]) =>
         LET blocked == BlockedRooms(inflight[p].body)
         IN /\ (resp'.code = 201 \/ bookings' # bookings) => blocked = {}
            /\ blocked # {} => (bookings' = bookings /\ nextId' = nextId)
            /\ (blocked # {} /\ inflight'[p] = Idle) =>
                 resp' = Respond("POST /api/bookings", 409, NoId)
            /\ (blocked = {} /\ inflight'[p] = Idle) =>
                 (resp'.code = 201 /\ DOMAIN bookings' = DOMAIN bookings \cup {nextId})]_vars

\* C10 witness: a request for two rooms has passed the check of its first
\* room, and its second room has an overlapping active booking.
C10_Witness ==
  \E p \in Procs :
    /\ inflight[p].kind = "create"
    /\ Len(selectedRooms(inflight[p].body)) = 2
    /\ inflight[p].done = 1
    /\ BlockedRooms(inflight[p].body) = {selectedRooms(inflight[p].body)[2]}

\* The active bookings that stand against a create request: those of a
\* requested room whose stay window overlaps the request's.
Blockers(bk, body) ==
  {i \in DOMAIN bk :
     /\ IsActive(bk[i])
     /\ bk[i].roomNumber \in RequestedRooms(body)
     /\ bk[i].checkInDate < body.checkOutDate
     /\ bk[i].checkOutDate > body.checkInDate}

\* No active booking other than i overlaps the range on the room.
FreeButFor(bk, i, room, checkIn, checkOut) ==
  \A j \in DOMAIN bk \ {i} :
    ~(/\ bk[j].roomNumber = room
      /\ IsActive(bk[j])
      /\ bk[j].checkInDate < checkOut
      /\ bk[j].checkOutDate > checkIn)

\* C11: once a booking is Rejected or Cancelled, the availability check of
\* its room and range is true unless another active booking of the room
\* overlaps the range, and so is the answer of the check-availability
\* route; a create request that only this booking stood against passes the
\* check of every room it asks for, and a create request that passes them
\* is answered 201 and inserts its row.
C11_RejectOrCancelFreesRoom ==
  [][/\ \A i \in Kept :
          (IsActive(bookings[i]) /\ bookings'[i].status \in {"Rejected", "Cancelled"}) =>
            /\ FreeButFor(bookings', i, bookings'[i].roomNumber,
                          bookings'[i].checkInDate, bookings'[i].checkOutDate)
                 => checkRoomAvailability(bookings', bookings'[i].roomNumber,
                                          bookings'[i].checkInDate,
                                          bookings'[i].checkOutDate, NoId)
            /\ \A body \in CreateInputs :
                 Blockers(bookings, body) = {i} =>
                   \A r \in RequestedRooms(body) :
                     checkRoomAvailability(bookings', r, body.checkInDate,
                                           body.checkOutDate, NoId)
     /\ resp'.op = "GET /api/bookings/check-availability" =>
          \A i \in DOMAIN bookings' :
            (/\ ~IsActive(bookings'[i])
             /\ bookings'[i].roomNumber = resp'.roomNumber
             /\ bookings'[i].checkInDate = resp'.checkIn
             /\ bookings'[i].checkOutDate = resp'.checkOut
             /\ FreeButFor(bookings', i, resp'.roomNumber, resp'.checkIn, resp'.checkOut))
              => resp'.available
     /\ \A p \in Procs :
          (/\ inflight[p].kind = "create"
           /\ inflight'[p] = Idle
           /\ Blockers(bookings, inflight[p].body) = {})
            => (/\ resp' = Respond("POST /api/bookings", 201, nextId)
                /\ nextId \in DOMAIN bookings'
                /\ bookings'[nextId].roomNumber = inflight[p].body.roomNumber)]_vars

\* C11 witness: a create request was just answered 201 for a window that
\* overlaps, on the same room, the window of a Rejected or Cancelled booking.
C11_Witness ==
  /\ resp.op = "POST /api/bookings" /\ resp.code = 201
  /\ resp.id \in DOMAIN bookings
  /\ \E i \in DOMAIN bookings \ {resp.id} :
       /\ bookings[i].status \in {"Rejected", "Cancelled"}
       /\ bookings[i].roomNumber = bookings[resp.id].roomNumber
       /\ bookings[i].checkOutDate > bookings[i].checkInDate
       /\ bookings[resp.id].checkOutDate > bookings[resp.id].checkInDate
       /\ Overlap(bookings[i], bookings[resp.id])

\* A date-edit body that carries a value in each of its five fields.
HasEveryField(body) ==
  /\ body.checkInDate # EmptyDate /\ body.checkOutDate # EmptyDate
  /\ body.totalNights # 0 /\ body.totalMVR # 0 /\ body.totalUSD # ""

\* Another active booking, on the room number of booking i, overlaps the
\* range.
OtherActiveOverlap(bk, i, checkIn, checkOut) ==
  /\ i \in DOMAIN bk
  /\ \E j \in DOMAIN bk \ {i} :
       /\ bk[j].roomNumber = bk[i].roomNumber
       /\ IsActive(bk[j])
       /\ bk[j].checkInDate < checkOut
       /\ bk[j].checkOutDate > checkIn

\* C12: with requests served one at a time, a date edit whose new range
\* overlaps another active booking (a different id) of the same room ends
\* with 409 and leaves the store as it was, and a date edit ends with 409
\* only then; a date edit of an unknown id that carries every field ends
\* with 404, and no date edit of an unknown id changes anything.
C12_DateEditConflictOrNotFound ==
  [][/\ \A p \in Procs :
          (inflight[p].kind = "dates" /\ inflight'[p] # inflight[p]) =>
            LET r == inflight[p]
                conflict == OtherActiveOverlap(bookings, r.id, r.body.checkInDate,
                                               r.body.checkOutDate)
            IN /\ conflict => /\ inflight'[p] = Idle
                              /\ resp' = Respond("PATCH /api/bookings/:id/dates", 409, r.id)
                              /\ bookings' = bookings
               /\ resp'.code = 409 => conflict
     /\ \A p \in Procs, id \in Ids \ DOMAIN bookings, body \in DatesInputs :
          PatchDates(p, id, body) =>
            /\ HasEveryField(body) => resp' = Respond("PATCH /api/bookings/:id/dates", 404, id)
            /\ resp'.code \in {400, 404}
            /\ bookings' = bookings /\ nextId' = nextId /\ inflight' = inflight]_vars

\* C12 witness: a date edit of an active booking was just answered 409, and
\* the booking still has a window that does not overlap the other booking
\* of its room.
C12_Witness ==
  /\ resp.op = "PATCH /api/bookings/:id/dates" /\ resp.code = 409
  /\ resp.id \in DOMAIN bookings
  /\ IsActive(bookings[resp.id])
  /\ \E j \in DOMAIN bookings \ {resp.id} :
       /\ bookings[j].roomNumber = bookings[resp.id].roomNumber
       /\ IsActive(bookings[j])
       /\ bookings[j].checkOutDate > bookings[j].checkInDate
       /\ ~Overlap(bookings[j], bookings[resp.id])

\* The rooms a persisted booking holds: those of its room list, or its
\* single room number when it has no list.
RowRooms(row) ==
  IF row.roomNumbers = ""
    THEN {row.roomNumber}
    ELSE LET arr == JSONParse(row.roomNumbers).arr IN {arr[k] : k \in 1..Len(arr)}

\* Another active booking, of at least one night, overlaps the range on a
\* room that booking i holds.
SetOverlap(bk, i, checkIn, checkOut) ==
  \E j \in DOMAIN bk \ {i} :
    /\ IsActive(bk[j])
    /\ bk[j].checkOutDate > bk[j].checkInDate
    /\ RowRooms(bk[j]) \cap RowRooms(bk[i]) # {}
    /\ bk[j].checkInDate < checkOut
    /\ bk[j].checkOutDate > checkIn

\* C13: a date edit of a booking that holds several rooms, none of them
\* overlapped by another active booking before the edit, is committed only
\* if no other active booking overlaps the new range on a room of the set.
C13_DateEditChecksEveryRoom ==
  [][\A p \in Procs :
       (/\ inflight[p].kind = "dates"
        /\ inflight[p].id \in Kept
        /\ Cardinality(RowRooms(bookings[inflight[p].id])) > 1
        /\ ~SetOverlap(bookings, inflight[p].id, bookings[inflight[p].id].checkInDate,
                       bookings[inflight[p].id].checkOutDate)
        /\ StayOf(bookings'[inflight[p].id]) # StayOf(bookings[inflight[p].id]))
         => ~SetOverlap(bookings, inflight[p].id, inflight[p].body.checkInDate,
                        inflight[p].body.checkOutDate)]_vars

C15_NotificationNeverAffectsCreate ==
  [][/\ \A i \in DOMAIN bookings' \ DOMAIN bookings :
          /\ resp' = Respond("POST /api/bookings", 201, i)
          /\ i \in DOMAIN notifications'
          /\ notifications'[i] = [attempts |-> 1, outcome |-> "pending"]
     /\ notifications' # notifications =>
          \/ DOMAIN bookings' # DOMAIN bookings
          \/ /\ bookings' = bookings /\ nextId' = nextId
             /\ inflight' = inflight /\ uploads' = uploads
             /\ resp' = NoResp
     /\ \A i \in DOMAIN notifications :
          /\ i \in DOMAIN notifications'
          /\ notifications'[i].attempts = 1
          /\ notifications[i].outcome # "pending" => notifications'[i] = notifications[i]]_vars

\* C15 witness: the notification of a persisted booking has failed, and the
\* booking is there as it was inserted.
C15_Witness ==
  \E i \in DOMAIN bookings :
    /\ i \in DOMAIN notifications
    /\ notifications[i] = [attempts |-> 1, outcome |-> "failed"]
    /\ bookings[i].status = "Pending"

\* The files of a record of file names.
FileNames(files) == {files.idPhoto, files.paymentSlip} \ {NoFile}

\* C16: when a create request ends with a response other than 201, none of
\* the files uploaded with it is left in the uploads directory; every file
\* in the directory belongs to a created booking or to a request still in
\* flight.
C16_NoFilesLeftOnFailure ==
  [][/\ (resp'.op = "POST /api/bookings" /\ resp'.code # 201) =>
          /\ \A k \in DOMAIN uploads' \ DOMAIN uploads : ~uploads'[k]
          /\ \A p \in Procs :
               (inflight[p].kind = "create" /\ inflight'[p] = Idle) =>
                 \A k \in FileNames(inflight[p].files) : ~uploads'[k]
     /\ \A k \in DOMAIN uploads' :
          uploads'[k] =>
            \/ \E i \in DOMAIN bookings' : k \in FileNames(bookings'[i])
            \/ \E p \in Procs :
                 inflight'[p].kind = "create" /\ k \in FileNames(inflight'[p].files)]_vars

\* The rooms of the extra-bed list of a row or of a request.
ExtraBedRooms(r) ==
  IF r.extraBeds = ""
    THEN {}
    ELSE LET arr == JSONParse(r.extraBeds).arr IN {arr[k] : k \in 1..Len(arr)}

\* C19: every room of a persisted booking's extra-bed list is one of the
\* rooms the booking holds (its room list, or its single room number when it
\* has no list).
C19_ExtraBedsWithinRooms ==
  \A i \in DOMAIN bookings :
    ExtraBedRooms(bookings[i]) \subseteq RowRooms(bookings[i])

\* C17: every persisted booking has its check-out date strictly after its
\* check-in date and at least one night.
C17_StayWindowWellFormed ==
  \A i \in DOMAIN bookings :
    /\ bookings[i].checkOutDate > bookings[i].checkInDate
    /\ bookings[i].totalNights >= 1

\* C18: every persisted booking has a local total of its nights times the
\* nightly rate and a foreign total of the local total divided by the
\* exchange rate, written with two decimals.
C18_TotalsFollowNights ==
  \A i \in DOMAIN bookings :
    /\ bookings[i].totalMVR = bookings[i].totalNights * 600
    /\ bookings[i].totalMVR >= 0 =>
         bookings[i].totalUSD = ToFixed2(bookings[i].totalMVR, 20)

\* C20: confirm and cancel leave the admin notes of every booking as they
\* are; so does a reject whose body has no adminNotes field; a reject whose
\* body has one sets the admin notes of its booking to it and leaves those
\* of the other bookings.
C20_NotesWrittenOnlyWhenSupplied ==
  [][/\ resp'.op \in {"PATCH /api/bookings/:id/confirm", "PATCH /api/bookings/:id/cancel"} =>
          \A i \in DOMAIN bookings :
            i \in DOMAIN bookings' /\ bookings'[i].adminNotes = bookings[i].adminNotes
     /\ \A id \in Ids, note \in RejectNoteInputs :
          PatchReject(id, note) =>
            \A i \in DOMAIN bookings :
              /\ i \in DOMAIN bookings'
              /\ bookings'[i].adminNotes =
                   IF i = id /\ note # Undefined THEN note ELSE bookings[i].adminNotes]_vars

\* C20 witness: a booking rejected with a note has just been confirmed, and
\* still carries the note.
C20_Witness ==
  /\ resp = Respond("PATCH /api/bookings/:id/confirm", 200, resp.id)
  /\ resp.id \in DOMAIN bookings
  /\ bookings[resp.id].status = "Confirmed"
  /\ bookings[resp.id].adminNotes = "no payment"

\* C21: a delete answers 200 exactly when the store holds the id, in any
\* status; it removes that booking and no other and leaves the others as
\* they are; afterwards getById finds nothing and the check of the deleted
\* booking's room and range is true unless another active booking overlaps;
\* a delete of an id the store does not hold answers 404 and changes
\* nothing, and GET by id answers 404 exactly for such an id.
C21_DeleteRemovesExactlyOne ==
  [][/\ resp'.op = "DELETE /api/bookings/:id" =>
          LET id == resp'.id
          IN /\ resp'.code = (IF id \in DOMAIN bookings THEN 200 ELSE 404)
             /\ DOMAIN bookings' = DOMAIN bookings \ {id}
             /\ \A i \in DOMAIN bookings' : bookings'[i] = bookings[i]
             /\ getBooking(bookings', id) = {}
             /\ id \in DOMAIN bookings =>
                  (FreeButFor(bookings, id, bookings[id].roomNumber,
                              bookings[id].checkInDate, bookings[id].checkOutDate)
                    => checkRoomAvailability(bookings', bookings[id].roomNumber,
                                             bookings[id].checkInDate,
                                             bookings[id].checkOutDate, NoId))
     /\ resp'.op = "GET /api/bookings/:id" =>
          /\ resp'.code = (IF resp'.id \in DOMAIN bookings THEN 200 ELSE 404)
          /\ resp'.booking = {bookings[i] : i \in DOMAIN bookings \cap {resp'.id}}
          /\ bookings' = bookings]_vars

\* C21 witness: a second delete of a booking that was created, and was
\* deleted before, has just been answered 404.
C21_Witness ==
  /\ resp = Respond("DELETE /api/bookings/:id", 404, resp.id)
  /\ resp.id \in Ids
  /\ resp.id < nextId
  /\ resp.id \notin DOMAIN bookings

\* C22: GET /api/gallery never answers an empty list.  With no row in the
\* photos relation it answers the five default images, in their order, with
\* ids default-0 .. default-4 and display order 0 .. 4, and persists
\* nothing; with a row in the relation it answers each persisted row once
\* and nothing else.
C22_GalleryNeverEmpty ==
  [][resp'.op = "GET /api/gallery" =>
       /\ Len(resp'.photos) > 0
       /\ galleryPhotos' = galleryPhotos
       /\ galleryPhotos = {} =>
            /\ Len(resp'.photos) = 5
            /\ resp'.photos[1].id = "default-0" /\ resp'.photos[1].displayOrder = 0
            /\ resp'.photos[2].id = "default-1" /\ resp'.photos[2].displayOrder = 1
            /\ resp'.photos[3].id = "default-2" /\ resp'.photos[3].displayOrder = 2
            /\ resp'.photos[4].id = "default-3" /\ resp'.photos[4].displayOrder = 3
            /\ resp'.photos[5].id = "default-4" /\ resp'.photos[5].displayOrder = 4
            /\ \A k \in 1..5 :
                 /\ resp'.photos[k].imageUrl = DEFAULT_GALLERY_IMAGES[k].imageUrl
                 /\ resp'.photos[k].altText = DEFAULT_GALLERY_IMAGES[k].altText
       /\ galleryPhotos # {} =>
            /\ {resp'.photos[k] : k \in 1..Len(resp'.photos)} = galleryPhotos
            /\ Len(resp'.photos) = Cardinality(galleryPhotos)]_vars

\* C22 witness: the gallery has just answered the default list after the
\* last persisted photo was deleted.
C22_Witness ==
  /\ resp.op = "GET /api/gallery"
  /\ galleryPhotos = {}
  /\ nextPhotoId > 1
  /\ resp.photos[1].id = "default-0"

\* A request whose every validated field is within its bounds.
WithinBounds(body) ==
  /\ Len(body.fullName) >= 2
  /\ Len(body.idNumber) >= 3
  /\ body.roomNumber \in ROOM_MIN..ROOM_MAX
  /\ body.checkInDate # EmptyDate /\ body.checkOutDate # EmptyDate
  /\ body.totalNights >= 1
  /\ body.totalMVR > 0

\* C23: a create request with a name of length 2, an id number of length 3,
\* a room number in [1, N], non-empty dates, at least one night and a
\* positive local total passes validation (its handler goes on to the
\* availability check); one with a name of length 1, an id number of length
\* 2, room number 0 or N + 1, an empty date, no night or a local total of 0
\* is answered 400, its handler ends and no row is inserted.
C23_ValidationBoundaries ==
  [][\A p \in Procs, body \in BoundaryInputs :
       PostBooking(p, body) =>
         /\ bookings' = bookings
         /\ WithinBounds(body) =>
              /\ resp'.code # 400
              /\ inflight'[p].kind = "create" /\ inflight'[p].body = body
         /\ ~WithinBounds(body) =>
              /\ resp'.op = "POST /api/bookings" /\ resp'.code = 400
              /\ inflight' = inflight /\ AllIdle']_vars

\* C23 witness: a booking with a name of two characters, an id number of
\* three, room N and a local total of 1 is stored, and a request has just
\* been answered 400.
C23_Witness ==
  /\ resp.op = "POST /api/bookings" /\ resp.code = 400
  /\ \E i \in DOMAIN bookings :
       /\ Len(bookings[i].fullName) = 2 /\ Len(bookings[i].idNumber) = 3
       /\ bookings[i].roomNumber = ROOM_MAX
       /\ bookings[i].totalMVR = 1

\* The steps that answer a status operation, and those that answer a date
\* edit.
StatusOps ==
  {"PATCH /api/bookings/:id/confirm", "PATCH /api/bookings/:id/reject",
   "PATCH /api/bookings/:id/cancel", "callback approve", "callback reject"}

\* Row a with the status and the admin notes of row b.
WithStatusOf(a, b) == [a EXCEPT !.status = b.status, !.adminNotes = b.adminNotes]

\* Row a with the stay window, the nights and the totals of row b.
WithStayOf(a, b) ==
  [a EXCEPT !.checkInDate = b.checkInDate, !.checkOutDate = b.checkOutDate,
            !.totalNights = b.totalNights, !.totalMVR = b.totalMVR,
            !.totalUSD = b.totalUSD]

\* C24: no operation changes the guest fields (full name, id number, phone,
\* customer notes) or the room assignment of a stored booking, and only a
\* create adds an id and only a delete removes one.  A status operation
\* changes at most the status and the admin notes of the booking it names;
\* a date edit changes at most the check-in, the check-out, the nights and
\* the two totals of the booking it names, not its status; both leave every
\* other booking's row as it was.
C24_FieldsImmutable ==
  [][/\ \A i \in Kept :
          /\ bookings'[i].fullName = bookings[i].fullName
          /\ bookings'[i].idNumber = bookings[i].idNumber
          /\ bookings'[i].phoneNumber = bookings[i].phoneNumber
          /\ bookings'[i].customerNotes = bookings[i].customerNotes
          /\ bookings'[i].roomNumber = bookings[i].roomNumber
          /\ bookings'[i].roomNumbers = bookings[i].roomNumbers
          /\ bookings'[i].extraBeds = bookings[i].extraBeds
     /\ resp'.op # "DELETE /api/bookings/:id" => DOMAIN bookings \subseteq DOMAIN bookings'
     /\ resp'.op # "POST /api/bookings" => DOMAIN bookings' \subseteq DOMAIN bookings
     /\ resp'.op \in StatusOps =>
          \A i \in DOMAIN bookings :
            /\ i # resp'.id => bookings'[i] = bookings[i]
            /\ bookings'[i] = WithStatusOf(bookings[i], bookings'[i])
     /\ resp'.op = "PATCH /api/bookings/:id/dates" =>
          \A i \in DOMAIN bookings :
            /\ i # resp'.id => bookings'[i] = bookings[i]
            /\ bookings'[i] = WithStayOf(bookings[i], bookings'[i])]_vars

\* C24 witness: a booking that was confirmed has had its dates edited, and
\* it still carries the guest's name, phone and note and its room.
C24_Witness ==
  /\ resp.op = "PATCH /api/bookings/:id/dates" /\ resp.code = 200
  /\ resp.id \in DOMAIN bookings
  /\ bookings[resp.id].status = "Confirmed"
  /\ bookings[resp.id].checkOutDate = MaxDay
  /\ bookings[resp.id].fullName = Guest.fullName
  /\ bookings[resp.id].phoneNumber = Guest.phoneNumber
  /\ bookings[resp.id].customerNotes = Guest.customerNotes

\* C25: confirming is idempotent.  A confirm of a stored booking is answered
\* 200 and leaves it Confirmed with every other field as it was; a confirm
\* of a booking that is Confirmed already is answered 200 too and leaves
\* the whole store as it was, so that two confirms leave the state one
\* confirm leaves.
C25_ConfirmIdempotent ==
  [][\A id \in Ids :
       (PatchConfirm(id) /\ id \in DOMAIN bookings) =>
         /\ resp'.code = 200
         /\ bookings' = [bookings EXCEPT ![id].status = "Confirmed"]
         /\ bookings[id].status = "Confirmed" => bookings' = bookings]_vars

\* C25 witness: a confirm has just been answered 200 for a booking that is
\* Confirmed and carries the note of an earlier rejection, beside a booking
\* that is Pending.
C25_Witness ==
  /\ resp.op = "PATCH /api/bookings/:id/confirm" /\ resp.code = 200
  /\ resp.id \in DOMAIN bookings
  /\ bookings[resp.id].status = "Confirmed"
  /\ bookings[resp.id].adminNotes = "no payment"
  /\ \E i \in DOMAIN bookings : bookings[i].status = "Pending"

\* The active bookings whose room number is `room` and whose stay overlaps
\* the range, the booking `i` left out.
OverlappingBut(bk, i, room, checkIn, checkOut) ==
  {j \in DOMAIN bk \ {i} :
     /\ bk[j].roomNumber = room
     /\ IsActive(bk[j])
     /\ bk[j].checkInDate < checkOut /\ bk[j].checkOutDate > checkIn}

\* C26: a date edit never conflicts with the edited booking itself.  The
\* availability check with an id to exclude is true exactly when no active
\* booking of the room other than that id overlaps the range; a date edit
\* whose new range overlaps no active booking of the room but the edited
\* one passes the check and is then committed with 200, and one whose new
\* range overlaps another active booking of the room is answered 409.
C26_EditExcludesOnlyItself ==
  [][/\ \A room \in Rooms, id \in Ids, checkIn \in Days, checkOut \in Days :
          checkRoomAvailability(bookings, room, checkIn, checkOut, id)
            <=> OverlappingBut(bookings, id, room, checkIn, checkOut) = {}
     /\ \A p \in Procs :
          (inflight[p].kind = "dates" /\ inflight'[p] # inflight[p]) =>
            LET r == inflight[p]
                others == OverlappingBut(bookings, r.id, bookings[r.id].roomNumber,
                                         r.body.checkInDate, r.body.checkOutDate)
            IN /\ r.id \in DOMAIN bookings
               /\ (r.pc = "check" /\ others = {}) =>
                    /\ inflight'[p] = [r EXCEPT !.pc = "update"]
                    /\ bookings' = bookings
               /\ (r.pc = "check" /\ others # {}) =>
                    /\ resp'.code = 409 /\ inflight'[p] = Idle
                    /\ bookings' = bookings
               /\ r.pc = "update" =>
                    /\ resp' = Respond("PATCH /api/bookings/:id/dates", 200, r.id)
                    /\ bookings'[r.id].checkInDate = r.body.checkInDate
                    /\ bookings'[r.id].checkOutDate = r.body.checkOutDate]_vars

\* C26 witness: an active booking has just been moved onto the whole
\* calendar, a range that overlaps every stay it could have had before,
\* while another active booking holds a different room over the first
\* night.
C26_Witness ==
  /\ resp.op = "PATCH /api/bookings/:id/dates" /\ resp.code = 200
  /\ resp.id \in DOMAIN bookings
  /\ IsActive(bookings[resp.id])
  /\ bookings[resp.id].checkInDate = 1 /\ bookings[resp.id].checkOutDate = MaxDay
  /\ \E j \in DOMAIN bookings \ {resp.id} :
       IsActive(bookings[j]) /\ bookings[j].roomNumber # bookings[resp.id].roomNumber

\* The active bookings, of at least one night, that hold `room` (in their
\* room list, or as their room number when they have no list) over a stay
\* that overlaps the range.
HoldersOf(bk, room, checkIn, checkOut) ==
  {j \in DOMAIN bk :
     /\ IsActive(bk[j])
     /\ bk[j].checkOutDate > bk[j].checkInDate
     /\ room \in RowRooms(bk[j])
     /\ bk[j].checkInDate < checkOut /\ bk[j].checkOutDate > checkIn}

\* C27: an active booking of several rooms blocks every room of its set.
\* An availability check for a room and a range of at least one night that
\* an active booking holds in its set is answered false, and no create
\* request for such a room and range is answered 201.
C27_EveryRoomOfSetBlocked ==
  [][/\ (/\ resp'.op = "GET /api/bookings/check-availability"
         /\ resp'.checkIn < resp'.checkOut
         /\ HoldersOf(bookings, resp'.roomNumber, resp'.checkIn, resp'.checkOut) # {})
          => ~resp'.available
     /\ \A p \in Procs :
          (/\ inflight[p].kind = "create"
           /\ inflight[p].body.checkInDate < inflight[p].body.checkOutDate
           /\ resp'.op = "POST /api/bookings" /\ resp'.code = 201)
            => \A room \in RequestedRooms(inflight[p].body) :
                 HoldersOf(bookings, room, inflight[p].body.checkInDate,
                           inflight[p].body.checkOutDate) = {}]_vars

\* No two active bookings with the same room number have overlapping stays.
NoActiveOverlapIn(bk) ==
  \A i \in DOMAIN bk, j \in DOMAIN bk :
    (i # j /\ bk[i].roomNumber = bk[j].roomNumber /\ IsActive(bk[i]) /\ IsActive(bk[j]))
      => ~Overlap(bk[i], bk[j])

\* C28: the availability check and the update of a date edit are one atomic
\* step with respect to other writers.  Whatever requests are in flight
\* with it, the update of a date edit, made in a state where no two active
\* bookings of a room overlap, leaves no two active bookings of a room
\* overlapping.
C28_DateEditAtomic ==
  [][\A p \in Procs :
       (/\ inflight[p].kind = "dates"
        /\ inflight[p].pc = "update"
        /\ inflight'[p] = Idle
        /\ NoActiveOverlapIn(bookings))
         => NoActiveOverlapIn(bookings')]_vars

\* C29: in every reachable state the status of every persisted booking is
\* one of Pending, Confirmed, Rejected and Cancelled, whatever routes and
\* chat callbacks have been served.
C29_StatusOneOfFour ==
  \A i \in DOMAIN bookings :
    bookings[i].status \in {"Pending", "Confirmed", "Rejected", "Cancelled"}

\* C29 witness: the cancel route has just answered 200 for a booking, now
\* Cancelled, beside a booking that is Rejected or Confirmed.
C29_Witness ==
  /\ resp.op = "PATCH /api/bookings/:id/cancel" /\ resp.code = 200
  /\ resp.id \in DOMAIN bookings
  /\ bookings[resp.id].status = "Cancelled"
  /\ \E i \in DOMAIN bookings : bookings[i].status \in {"Rejected", "Confirmed"}

\* The routes that answer 404 for an id that is not in the store.
IdRoutes ==
  {"PATCH /api/bookings/:id/confirm", "PATCH /api/bookings/:id/reject",
   "PATCH /api/bookings/:id/cancel", "PATCH /api/bookings/:id/dates",
   "DELETE /api/bookings/:id", "GET /api/bookings/:id"}

\* C30: an operation addressed to an id that is not in the store changes
\* nothing.  Confirm, reject, cancel, a date edit that carries every field
\* and delete answer 404; an approve or reject callback creates and
\* modifies no booking; the lookup by id finds nothing and is answered 404,
\* not an error; and none of them leaves a handler in flight.
C30_UnknownIdChangesNothing ==
  [][(resp'.op \in IdRoutes \cup {"callback approve", "callback reject"}
        /\ resp'.id \notin DOMAIN bookings)
       => /\ bookings' = bookings
          /\ nextId' = nextId
          /\ inflight' = inflight
          /\ resp'.op \in IdRoutes => resp'.code = 404
          /\ resp'.op = "GET /api/bookings/:id" => resp'.booking = {}
          /\ resp'.code # 500]_vars

\* C30 witness: the approve callback for an id that was never created has
\* just been answered, and the one stored booking is still Pending.
C30_Witness ==
  /\ resp.op = "callback approve" /\ resp.code = 404
  /\ resp.id >= nextId
  /\ DOMAIN bookings # {}
  /\ \A i \in DOMAIN bookings : bookings[i].status = "Pending"

====
